---- MODULE Spec2Model ----
(***************************************************************************)
(* Model of the matching engine of dap_mrs (src/src/main.py, rematcher):   *)
(* the applicant and reviewer tables A and B, the proposal rank q, the     *)
(* iteration counter, the per-iteration counters, the log, and the         *)
(* position of the control flow inside the while / for loops.              *)
(*                                                                         *)
(* Numbers are integers.  A rational (a column mean) is kept as the pair   *)
(* [num, den].  The value None of the match column is modelled by -1; ids  *)
(* are the row labels 0 .. n-1.                                            *)
(***************************************************************************)
EXTENDS Integers, Sequences, FiniteSets, TLC

VARIABLES
    A,                  \* applicants' table: id -> row
    B,                  \* reviewers' table: id -> row
    data_input,         \* the input table: column name -> column
    data_input_at_call, \* the input table as the caller passed it
    data_output,        \* the output table: column name -> column
    iterat_cap,         \* the iteration cap of the loop
    extra_vars,         \* configuration: the allocation columns are wanted
    tie_order,          \* the order the sort gives to rows of equal utility
    bias,               \* configuration: bias flag
    A_char_number,      \* configuration: number of applicants' characteristics
    B_char_number,      \* configuration: number of reviewers' characteristics
    q,                  \* applicants' choice rank
    iterat,             \* iteration counter
    q_reset_count,
    all_matched,        \* loop flag
    breakups_count,
    rejections_count,
    pass_matched_count,
    log,                \* sequence of log rows
    pc,                 \* "while" | "for" | "done" | "compiled" | "error"
    pos                 \* index of the next applicant of the pass

vars == <<A, B, data_input, data_input_at_call, data_output, iterat_cap,
          extra_vars, tie_order, bias, A_char_number, B_char_number, q, iterat, q_reset_count,
          all_matched, breakups_count, rejections_count, pass_matched_count,
          log, pc, pos>>

\* what the matching loop never writes
config == <<bias, A_char_number, B_char_number, iterat_cap, extra_vars,
            tie_order, data_input, data_input_at_call, data_output>>

-----------------------------------------------------------------------------
(* Bounds of the explored inputs *)

MaxN == 3

\* the iteration cap of the runs that explore populations larger than the
\* cap (with the cap of the program this takes more than 1000 rows)
ScaledCap == 2

\* values of the characteristics in the input table
CharVals == {0, 1}
\* values of the substitution rates in the input table
MrsVals == {-1, 2}
\* values of the reviewers' bias rate in the input table
BiasMrsVals == {-2}
\* values of A_char_number and B_char_number in the explored configurations
CharNumbers == {1, 2, 3, 4, 5}
\* the columns that are absent from some of the explored input tables
AbsentColumns == {"A_char_1", "B_mrs13"}

-----------------------------------------------------------------------------
(* Program constants *)

None == -1
IterCap == 1000

\* the name of the specification and the names of the bias columns as the
\* caller passes them (the defaults of the parameters)
spec_name == "default"
A_bias_char_name_given == "A_bias_char"
B_bias_mrs_name_given == "B_bias_mrs"

\* the names under which the bias columns are read and written
A_bias_char_name == spec_name \o "_" \o A_bias_char_name_given
B_bias_mrs_name == spec_name \o "_" \o B_bias_mrs_name_given

-----------------------------------------------------------------------------
(* The tables *)

Ids == DOMAIN A
n == Cardinality(DOMAIN A)

\* columns over the rows 0 .. m-1: any value of S in each row, the same
\* value of S in all rows
Col(m, S) == [0 .. m-1 -> S]
Uniform(m, S) == {[k \in 0 .. m-1 |-> v] : v \in S}

\* input tables with the given sets of columns; the third and fourth
\* characteristics and their rates hold 1 in every row; the bias columns
\* have the names under which the program reads them
TableSet(m, a1, a2, ab, am, b1, b2, bm, bb) ==
    [A_char_1    : a1,
     A_char_2    : a2,
     A_char_3    : Uniform(m, {1}),
     A_char_4    : Uniform(m, {1}),
     default_A_bias_char : ab,
     A_mrs12     : am,
     A_mrs13     : Uniform(m, {1}),
     A_mrs14     : Uniform(m, {1}),
     B_char_1    : b1,
     B_char_2    : b2,
     B_char_3    : Uniform(m, {1}),
     B_char_4    : Uniform(m, {1}),
     B_mrs12     : bm,
     B_mrs13     : Uniform(m, {1}),
     B_mrs14     : Uniform(m, {1}),
     default_B_bias_mrs  : bb]

\* the input tables that are explored, m rows each.
\* Without bias: applicants that differ in char_1 and in their rate, reviewers
\* that differ in char_2; or applicants that differ in char_2 and reviewers
\* that differ in their rate.
\* With bias: applicants that differ in char_1 and in the bias characteristic
\* and share one rate, reviewers that differ in char_2 and share one bias rate.
Tables(m, bs) ==
    IF bs
    THEN TableSet(m, Col(m, CharVals), Uniform(m, {1}), Col(m, {0, 1}),
                     Uniform(m, {2}),
                     Uniform(m, {0}), Col(m, CharVals), Uniform(m, {0}),
                     Uniform(m, BiasMrsVals))
    ELSE TableSet(m, Col(m, CharVals), Uniform(m, {1}), Uniform(m, {1}),
                     Col(m, MrsVals),
                     Uniform(m, {0}), Col(m, CharVals), Uniform(m, {0}),
                     Uniform(m, BiasMrsVals))
         \cup
         TableSet(m, Uniform(m, {0}), Col(m, CharVals), Uniform(m, {1}),
                     Uniform(m, {2}),
                     Uniform(m, {1}), Uniform(m, {1}), Col(m, MrsVals),
                     Uniform(m, BiasMrsVals))

\* the row labels of a table
Rows(d) == UNION {DOMAIN d[c] : c \in DOMAIN d}

\* data_input[name] = 0 when cond holds: the column is set to 0 in every
\* row, and is created when the table does not have it
ZeroIf(cond, d, name) ==
    IF cond
    THEN [c \in DOMAIN d \cup {name} |->
             IF c = name THEN [k \in Rows(d) |-> 0] ELSE d[c]]
    ELSE d

\* variant: the rates of the unused characteristics are not set to 0
Prepared_chars_only(t, A_num, B_num, bs) ==
    LET d1 == ZeroIf(A_num \in {2, 3}, t,  "A_char_4")
        d3 == ZeroIf(A_num = 2,        d1, "A_char_3")
        d5 == ZeroIf(B_num \in {2, 3}, d3, "B_char_4")
        d7 == ZeroIf(B_num = 2,        d5, "B_char_3")
        d9 == ZeroIf(bs = FALSE,       d7, A_bias_char_name)
    IN  ZeroIf(bs = FALSE, d9, B_bias_mrs_name)

\* the table t without the column c
Without(t, c) == [x \in DOMAIN t \ {c} |-> t[x]]

\* the table t with its bias columns under the names the caller passes (the
\* columns of the example dataset)
GivenNames(t) ==
    [x \in (DOMAIN t \ {A_bias_char_name, B_bias_mrs_name})
            \cup {A_bias_char_name_given, B_bias_mrs_name_given} |->
        IF x = A_bias_char_name_given THEN t[A_bias_char_name]
        ELSE IF x = B_bias_mrs_name_given THEN t[B_bias_mrs_name]
        ELSE t[x]]

\* the input tables of the explored configurations, m rows each: applicants
\* that differ in char_1, everything else the same in all rows; every column
\* present, or the bias columns under the names the caller passes, or one
\* column absent
ConfigTables(m) ==
    LET full == TableSet(m, Col(m, CharVals), Uniform(m, {1}), Uniform(m, {1}),
                            Uniform(m, {2}),
                            Uniform(m, {1}), Uniform(m, {1}), Uniform(m, {2}),
                            Uniform(m, BiasMrsVals))
    IN  full
        \cup {GivenNames(t) : t \in full}
        \cup {Without(t, c) : t \in full, c \in AbsentColumns}

\* the input tables of the runs that explore the order of the sort, m rows
\* each: applicants that differ in char_1 and share one rate, reviewers that
\* differ in char_2 or not at all
TieTables(m) ==
    TableSet(m, Col(m, CharVals), Uniform(m, {1}), Uniform(m, {1}),
                Uniform(m, {2}),
                Uniform(m, {0}), Col(m, CharVals), Uniform(m, {0}),
                Uniform(m, BiasMrsVals))

\* variant: without bias the bias columns are left as they are
Prepared_bias_kept(t, A_num, B_num, bs) ==
    LET d1 == ZeroIf(A_num \in {2, 3}, t,  "A_char_4")
        d2 == ZeroIf(A_num \in {2, 3}, d1, "B_mrs14")
        d3 == ZeroIf(A_num = 2,        d2, "A_char_3")
        d4 == ZeroIf(A_num = 2,        d3, "B_mrs13")
        d5 == ZeroIf(B_num \in {2, 3}, d4, "B_char_4")
        d6 == ZeroIf(B_num \in {2, 3}, d5, "A_mrs14")
        d7 == ZeroIf(B_num = 2,        d6, "B_char_3")
    IN  ZeroIf(B_num = 2, d7, "A_mrs13")

\* DATA PREPARATION: the columns the configuration does not use are set to 0
Prepared(t, A_num, B_num, bs) ==
    LET d1 == ZeroIf(A_num \in {2, 3}, t,  "A_char_4")
        d2 == ZeroIf(A_num \in {2, 3}, d1, "B_mrs14")
        d3 == ZeroIf(A_num = 2,        d2, "A_char_3")
        d4 == ZeroIf(A_num = 2,        d3, "B_mrs13")
        d5 == ZeroIf(B_num \in {2, 3}, d4, "B_char_4")
        d6 == ZeroIf(B_num \in {2, 3}, d5, "A_mrs14")
        d7 == ZeroIf(B_num = 2,        d6, "B_char_3")
        d8 == ZeroIf(B_num = 2,        d7, "A_mrs13")
        d9 == ZeroIf(bs = FALSE,       d8, A_bias_char_name)
    IN  ZeroIf(bs = FALSE, d9, B_bias_mrs_name)

\* the columns the tables A and B are built from
A_columns == {"A_char_1", "A_char_2", "A_char_3", "A_char_4",
              A_bias_char_name, "A_mrs12", "A_mrs13", "A_mrs14"}
B_columns == {"B_char_1", "B_char_2", "B_char_3", "B_char_4",
              "B_mrs12", "B_mrs13", "B_mrs14", B_bias_mrs_name}

\* reading a column the table does not have raises KeyError
KeyError(d) == ~ ((A_columns \cup B_columns) \subseteq DOMAIN d)

A_table(d) ==
    [k \in Rows(d) |->
        [id            |-> k,
         char_1        |-> d.A_char_1[k],
         char_2        |-> d.A_char_2[k],
         char_3        |-> d.A_char_3[k],
         char_4        |-> d.A_char_4[k],
         bias_char     |-> d[A_bias_char_name][k],
         mrs12         |-> d.A_mrs12[k],
         mrs13         |-> d.A_mrs13[k],
         mrs14         |-> d.A_mrs14[k],
         match         |-> None,
         match_utility |-> 0]]

B_table(d) ==
    [k \in Rows(d) |->
        [id            |-> k,
         char_1        |-> d.B_char_1[k],
         char_2        |-> d.B_char_2[k],
         char_3        |-> d.B_char_3[k],
         char_4        |-> d.B_char_4[k],
         mrs12         |-> d.B_mrs12[k],
         mrs13         |-> d.B_mrs13[k],
         mrs14         |-> d.B_mrs14[k],
         bias_mrs      |-> d[B_bias_mrs_name][k],
         match         |-> None,
         match_utility |-> 0]]

-----------------------------------------------------------------------------
(* Utilities *)

\* variant: the rates are read from the row of A that has the reviewer's label
A_match_utility_row_rates(a, b) ==
      B[b].char_1
    + B[b].char_2 * A[b].mrs12
    + B[b].char_3 * A[b].mrs13
    + B[b].char_4 * A[b].mrs14

\* the applicant's payoff of a match of applicant a with reviewer b
A_match_utility(a, b) ==
      B[b].char_1
    + B[b].char_2 * A[a].mrs12
    + B[b].char_3 * A[a].mrs13
    + B[b].char_4 * A[a].mrs14

\* the reviewer's value of applicant a, bias term included
B_match_utility(b, a) ==
      A[a].char_1
    + A[a].char_2 * B[b].mrs12
    + A[a].char_3 * B[b].mrs13
    + A[a].char_4 * B[b].mrs14
    + A[a].bias_char * B[b].bias_mrs

\* variant: the rates are those of the applicant that is being visited
network_utility_own_rates(j) ==
    LET i == IF pos \in Ids THEN pos ELSE 0 IN
      B[j].char_1
    + B[j].char_2 * A[i].mrs12
    + B[j].char_3 * A[i].mrs13
    + B[j].char_4 * A[i].mrs14

\* the 'utility' column of the network: the columns of B and of A are
\* multiplied row by row (pandas aligns the two Series on the row label),
\* so row j combines reviewer j's characteristics with the rates of row j of A
network_utility(j) ==
      B[j].char_1
    + B[j].char_2 * A[j].mrs12
    + B[j].char_3 * A[j].mrs13
    + B[j].char_4 * A[j].mrs14

\* position (0-based) of row j after sort_values('utility', ascending=False):
\* descending utility, equal utilities in the order the sort gives them (the
\* kind of sort is the default one, which need not keep the row order)
network_position(j) ==
    Cardinality({k \in Ids :
        \/ network_utility(k) > network_utility(j)
        \/ /\ network_utility(k) = network_utility(j)
           /\ tie_order[k] < tie_order[j]})

\* network.iloc[q-1]['id']
qth_best_id == CHOOSE j \in Ids : network_position(j) = q - 1

-----------------------------------------------------------------------------
(* Counts and means of the log *)

RECURSIVE SumOver(_, _)
SumOver(f, S) ==
    IF S = {} THEN 0
    ELSE LET k == CHOOSE x \in S : TRUE IN f[k] + SumOver(f, S \ {k})

\* variants: an agent counts as matched when its match_utility is not 0
match_count_by_utility(T) ==
    Cardinality({k \in DOMAIN T : T[k].match_utility # 0})
unmatch_count_by_utility(T) ==
    Cardinality({k \in DOMAIN T : T[k].match_utility = 0})
match_count(T) == Cardinality({k \in DOMAIN T : T[k].match # None})
unmatch_count(T) == Cardinality({k \in DOMAIN T : T[k].match = None})
match_utility_mean(T) ==
    [num |-> SumOver([k \in DOMAIN T |-> T[k].match_utility], DOMAIN T),
     den |-> Cardinality(DOMAIN T)]

log_entry(A1, B1, q_reset) ==
    [iterat              |-> iterat,
     A_match_count       |-> match_count(A1),
     A_unmatch_count     |-> unmatch_count(A1),
     B_match_count       |-> match_count(B1),
     B_unmatch_count     |-> unmatch_count(B1),
     A_match_utlity_mean |-> match_utility_mean(A1),
     B_match_utlity_mean |-> match_utility_mean(B1),
     breakups_count      |-> breakups_count,
     q_reset_count       |-> q_reset,
     rejections_count    |-> rejections_count,
     pass_matched_count  |-> pass_matched_count]

-----------------------------------------------------------------------------
(* Initial state: the tables are built, the loop has not started *)

\* the output table before the results are compiled
NoTable == [c \in {} |-> 0]

\* the row order: the order of a sort that keeps rows of equal utility in
\* the order of the table
RowOrder(m) == [k \in 0 .. m-1 |-> k]

\* the state when the loop is reached, or when building the tables has
\* failed, for a call with table t and the given configuration
Start(t, A_num, B_num, bs) ==
    LET d == Prepared(t, A_num, B_num, bs) IN
    /\ data_input_at_call = t
    /\ data_input = d
    /\ bias = bs
    /\ A_char_number = A_num
    /\ B_char_number = B_num
    /\ IF KeyError(d)
       THEN A = NoTable /\ B = NoTable /\ pc = "error"
       ELSE A = A_table(d) /\ B = B_table(d) /\ pc = "while"
    /\ q = 1
    /\ iterat = 0
    /\ q_reset_count = 0
    /\ all_matched = FALSE
    /\ breakups_count = 0
    /\ rejections_count = 0
    /\ pass_matched_count = 0
    /\ log = <<>>
    /\ pos = 0
    /\ data_output = NoTable

\* the calls with two characteristics on each side, tables that have every
\* column, no allocation columns and a sort that keeps the row order
InitWith(caps) ==
    /\ \E m \in 1 .. MaxN, bs \in BOOLEAN :
        \E t \in Tables(m, bs) :
            /\ Start(t, 2, 2, bs)
            /\ tie_order = RowOrder(m)
    /\ extra_vars = FALSE
    /\ iterat_cap \in caps

Init == InitWith({IterCap})

\* the calls with any characteristic counts, with and without the
\* allocation columns, on tables that may lack a column
ConfigInit ==
    /\ \E m \in 1 .. MaxN, bs \in BOOLEAN :
        \E A_num \in CharNumbers, B_num \in CharNumbers :
            \E t \in ConfigTables(m) :
                /\ Start(t, A_num, B_num, bs)
                /\ tie_order = RowOrder(m)
    /\ extra_vars \in BOOLEAN
    /\ iterat_cap = IterCap

\* the calls without bias on tables whose reviewers may be of equal utility,
\* with every order the sort may give to rows of equal utility
TieInit ==
    /\ \E m \in 1 .. MaxN :
        \E t \in TieTables(m) :
            /\ Start(t, 2, 2, FALSE)
            /\ tie_order \in Permutations(0 .. m-1)
    /\ extra_vars = FALSE
    /\ iterat_cap = IterCap

\* the input tables of the runs with four characteristics, m rows each:
\* applicants that differ in char_1 and char_3, reviewers that differ in
\* char_3, bias columns that are not 0
FourTables(m) ==
    {[t EXCEPT !.A_char_3 = a3, !.B_char_3 = b3] :
        t \in TableSet(m, Col(m, CharVals), Uniform(m, {1}), Uniform(m, {1}),
                          Uniform(m, {2}),
                          Uniform(m, {1}), Uniform(m, {1}), Uniform(m, {2}),
                          Uniform(m, BiasMrsVals)),
        a3 \in Col(m, CharVals),
        b3 \in Col(m, CharVals)}

\* the calls without bias that the other two loops can be given: both counts
\* 4 on a table with four characteristics, or both counts 2
EquivInit ==
    /\ \E m \in 1 .. MaxN :
        /\ \/ \E t \in FourTables(m) : Start(t, 4, 4, FALSE)
           \/ \E t \in Tables(m, FALSE) : Start(t, 2, 2, FALSE)
        /\ tie_order = RowOrder(m)
    /\ extra_vars = FALSE
    /\ iterat_cap = IterCap

\* the same program with a smaller iteration cap
CapInit == InitWith(1 .. ScaledCap)

-----------------------------------------------------------------------------
(* The matching loop *)

\* while all_matched == False: start of an iteration
WhileStart ==
    /\ pc = "while"
    /\ all_matched = FALSE
    /\ iterat' = iterat + 1
    /\ breakups_count' = 0
    /\ rejections_count' = 0
    /\ pass_matched_count' = 0
    /\ pos' = 0
    /\ pc' = "for"
    /\ UNCHANGED <<A, B, config, q, q_reset_count, all_matched, log>>

\* the rows of A and B after applicant i and reviewer b are matched
A_matched(T, i, b) ==
    [T EXCEPT ![i].match = b, ![i].match_utility = A_match_utility(i, b)]
\* variant: the reviewer's row gets the utility but not the applicant's id
B_matched_utility_only(T, b, i) ==
    [T EXCEPT ![b].match_utility = B_match_utility(b, i)]
B_matched(T, b, i) ==
    [T EXCEPT ![b].match = i, ![b].match_utility = B_match_utility(b, i)]
\* variant: the displaced applicant keeps its match
A_unmatched_keeps_match(T, j) ==
    [T EXCEPT ![j].match_utility = 0]
\* variant: the displaced applicant keeps its match_utility
A_unmatched_keeps_utility(T, j) ==
    [T EXCEPT ![j].match = None]
\* the row of a displaced applicant
A_unmatched(T, j) ==
    [T EXCEPT ![j].match = None, ![j].match_utility = 0]

\* variant: the proposer also wins an exact tie
Accepts_or_equal(i_utility, current_applicant_utility) ==
    i_utility >= current_applicant_utility
\* variant: the comparison is reversed
Accepts_lower(i_utility, current_applicant_utility) ==
    i_utility < current_applicant_utility
\* the reviewer accepts the proposer over the incumbent
Accepts(i_utility, current_applicant_utility) ==
    i_utility > current_applicant_utility
\* variant: an exact tie counts as a rejection
Rejects_or_equal(i_utility, current_applicant_utility) ==
    i_utility <= current_applicant_utility
\* the reviewer rejects the proposer
Rejects(i_utility, current_applicant_utility) ==
    i_utility < current_applicant_utility

\* variant: the test of the applicant's match is missing
is_unmatched_always(i) == TRUE
\* if i is not matched
is_unmatched(i) == A[i].match = None

\* applicant i is unmatched and the q-th best reviewer is available
ProposeFree ==
    /\ pc = "for"
    /\ pos < n
    /\ LET i == pos
           b == qth_best_id IN
        /\ is_unmatched(i)
        /\ B[b].match = None
        /\ A' = A_matched(A, i, b)
        /\ B' = B_matched(B, b, i)
    /\ pos' = pos + 1
    /\ UNCHANGED <<config, q, iterat, q_reset_count, all_matched, breakups_count,
                   rejections_count, pass_matched_count, log, pc>>

\* applicant i is unmatched, the q-th best reviewer is matched and prefers i
ProposeBreakup ==
    /\ pc = "for"
    /\ pos < n
    /\ LET i == pos
           b == qth_best_id
           current_applicant == B[b].match IN
        /\ is_unmatched(i)
        /\ B[b].match # None
        /\ Accepts(B_match_utility(b, i), B_match_utility(b, current_applicant))
        /\ A' = A_matched(A_unmatched(A, current_applicant), i, b)
        /\ B' = B_matched(B, b, i)
    /\ breakups_count' = breakups_count + 1
    /\ pos' = pos + 1
    /\ UNCHANGED <<config, q, iterat, q_reset_count, all_matched,
                   rejections_count, pass_matched_count, log, pc>>

\* applicant i is unmatched, the q-th best reviewer is matched and prefers
\* its current applicant
ProposeRejected ==
    /\ pc = "for"
    /\ pos < n
    /\ LET i == pos
           b == qth_best_id
           current_applicant == B[b].match IN
        /\ is_unmatched(i)
        /\ B[b].match # None
        /\ Rejects(B_match_utility(b, i), B_match_utility(b, current_applicant))
    /\ rejections_count' = rejections_count + 1
    /\ pos' = pos + 1
    /\ UNCHANGED <<A, B, config, q, iterat, q_reset_count, all_matched,
                   breakups_count, pass_matched_count, log, pc>>

\* applicant i is unmatched, the q-th best reviewer is matched and values i
\* and its current applicant equally: neither branch is taken
ProposeTie ==
    /\ pc = "for"
    /\ pos < n
    /\ LET i == pos
           b == qth_best_id
           current_applicant == B[b].match IN
        /\ is_unmatched(i)
        /\ B[b].match # None
        /\ ~ Accepts(B_match_utility(b, i), B_match_utility(b, current_applicant))
        /\ ~ Rejects(B_match_utility(b, i), B_match_utility(b, current_applicant))
    /\ pos' = pos + 1
    /\ UNCHANGED <<A, B, config, q, iterat, q_reset_count, all_matched,
                   breakups_count, rejections_count, pass_matched_count, log, pc>>

\* applicant i is matched: move to the next applicant
PassMatched ==
    /\ pc = "for"
    /\ pos < n
    /\ ~ is_unmatched(pos)
    /\ pass_matched_count' = pass_matched_count + 1
    /\ pos' = pos + 1
    /\ UNCHANGED <<A, B, config, q, iterat, q_reset_count, all_matched,
                   breakups_count, rejections_count, log, pc>>

\* variant: the rank is not reset
next_q_no_reset == q + 1
\* update of the applicants' choice rank
next_q == IF q < n THEN q + 1 ELSE IF q = n THEN 1 ELSE q
next_q_reset_count ==
    IF q < n THEN q_reset_count ELSE IF q = n THEN q_reset_count + 1 ELSE q_reset_count

\* variant: the test asks whether every reviewer is unmatched
all_reviewers_unmatched == \A b \in Ids : B[b].match = None
\* None in B['match'].unique()
some_reviewer_unmatched == \E b \in Ids : B[b].match = None

\* variant: only the iteration cap ends the loop
next_all_matched_cap_only == iterat > iterat_cap
\* the flag after the check of the reviewers and of the iteration cap
next_all_matched ==
    IF iterat > iterat_cap THEN TRUE ELSE ~ some_reviewer_unmatched

\* end of the pass: rank update, log row, termination checks
EndIteration ==
    /\ pc = "for"
    /\ pos = n
    /\ q' = next_q
    /\ q_reset_count' = next_q_reset_count
    /\ log' = Append(log, log_entry(A, B, next_q_reset_count))
    /\ all_matched' = next_all_matched
    /\ pc' = "while"
    /\ UNCHANGED <<A, B, config, iterat, breakups_count, rejections_count,
                   pass_matched_count, pos>>

\* the loop is left
LoopExit ==
    /\ pc = "while"
    /\ all_matched = TRUE
    /\ pc' = "done"
    /\ UNCHANGED <<A, B, config, q, iterat, q_reset_count, all_matched,
                   breakups_count, rejections_count, pass_matched_count, log, pos>>

-----------------------------------------------------------------------------
(* RESULTS: the output table is compiled from the final tables.  A z-score   *)
(* (difference from the mean divided by the standard deviation) is kept as   *)
(* the deviation and the variance it is computed from.                       *)

\* the columns that are dropped from the input table
dropped_columns ==
    (IF A_char_number = 3 THEN {"A_char_4", "B_mrs14"}
     ELSE IF A_char_number = 2
          THEN {"A_char_3", "B_mrs13", "A_char_4", "B_mrs14"} ELSE {})
    \cup
    (IF B_char_number = 3 THEN {"B_char_4", "A_mrs14"}
     ELSE IF B_char_number = 2
          THEN {"B_char_3", "A_mrs13", "B_char_4", "A_mrs14"} ELSE {})
    \cup
    (IF bias = FALSE THEN {A_bias_char_name, B_bias_mrs_name} ELSE {})

drop(d, names) == [c \in DOMAIN d \ names |-> d[c]]

\* row k of the products of the columns of B and of A (pandas multiplies and
\* adds the columns row by row)
A_obs_u(k) ==
      B[k].char_1 + B[k].char_2 * A[k].mrs12
    + B[k].char_3 * A[k].mrs13 + B[k].char_4 * A[k].mrs14
\* variant: the bias term is added
B_obs_u_with_bias(k) ==
      A[k].char_1 + A[k].char_2 * B[k].mrs12
    + A[k].char_3 * B[k].mrs13 + A[k].char_4 * B[k].mrs14
    + A[k].bias_char * B[k].bias_mrs
B_obs_u(k) ==
      A[k].char_1 + A[k].char_2 * B[k].mrs12
    + A[k].char_3 * B[k].mrs13 + A[k].char_4 * B[k].mrs14

\* the realized payoffs
A_dap_u(k) == A[k].match_utility
B_dap_u(k) == B[k].match_utility

\* variant: B is not sorted
B_dap_sorted_position_unsorted(b) == b
\* position (0-based) of reviewer b after B.sort_values('match'): ascending
\* match, rows without a match last, equal keys in the order of the rows
B_dap_sorted_position(b) ==
    Cardinality({k \in Ids :
        \/ B[k].match # None /\ B[b].match = None
        \/ B[k].match # None /\ B[b].match # None /\ B[k].match < B[b].match
        \/ B[k].match = B[b].match /\ k < b})

\* row p of B_dap_sorted (ignore_index=True: the rows are renumbered)
B_dap_sorted(p) == B[CHOOSE b \in Ids : B_dap_sorted_position(b) = p]

A_apparent_u(k) == B_dap_sorted(k).match_utility
A_apparent_corrected_u(k) ==
    B_dap_sorted(k).match_utility - A[k].bias_char * B_dap_sorted(k).bias_mrs

\* variant: the two match columns are exchanged
extra_columns_exchanged ==
    IF extra_vars
    THEN [default_initial_index |-> [k \in Ids |-> k],
          default_A_dap_match   |-> [k \in Ids |-> B[k].match],
          default_B_dap_match   |-> [k \in Ids |-> A[k].match]]
    ELSE NoTable
\* the allocation columns: the row labels and the match columns of A and B
extra_columns ==
    IF extra_vars
    THEN [default_initial_index |-> [k \in Ids |-> k],
          default_A_dap_match   |-> [k \in Ids |-> A[k].match],
          default_B_dap_match   |-> [k \in Ids |-> B[k].match]]
    ELSE NoTable

\* the columns that are added to the copy of the input table (their names
\* start with spec_name)
payoff_columns ==
    [default_A_obs_u |-> [k \in Ids |-> A_obs_u(k)],
     default_B_obs_u |-> [k \in Ids |-> B_obs_u(k)],
     default_A_dap_u |-> [k \in Ids |-> A_dap_u(k)],
     default_B_dap_u |-> [k \in Ids |-> B_dap_u(k)],
     default_diff_A  |-> [k \in Ids |-> A_obs_u(k) - A_dap_u(k)],
     default_diff_B  |-> [k \in Ids |-> B_obs_u(k) - B_dap_u(k)]]

apparent_columns ==
    IF bias
    THEN [default_A_apparent_u           |-> [k \in Ids |-> A_apparent_u(k)],
          default_A_apparent_corrected_u |-> [k \in Ids |-> A_apparent_corrected_u(k)]]
    ELSE NoTable

\* (x - x.mean()) / x.std() of a column x, given the number of its rows, their
\* sum and the sum of their squares: the deviation from the mean and the
\* variance the standard deviation is the root of (pandas divides by the
\* number of rows less one, so a column of one row has none), each as a
\* fraction
z_score(x, m, sum, sum_sq) ==
    [k \in DOMAIN x |->
        [deviation |-> [num |-> m * x[k] - sum, den |-> m],
         variance  |-> [num |-> m * sum_sq - sum * sum, den |-> m * (m - 1)]]]

\* the z-scores of the column x; its sum and the sum of its squares are
\* computed once
z_column(x) ==
    CHOOSE z \in
        {z_score(x, Cardinality(DOMAIN x), sum, sum_sq) :
            sum    \in {SumOver(x, DOMAIN x)},
            sum_sq \in {SumOver([k \in DOMAIN x |-> x[k] * x[k]], DOMAIN x)}} :
        TRUE

\* the z-score columns: one for every payoff column of the table t, under
\* the name of the column followed by _z
z_scores(t) ==
    [c \in {name \o "_z" : name \in DOMAIN t} |->
        CHOOSE z \in {z_column(t[name]) :
                         name \in {x \in DOMAIN t : x \o "_z" = c}} : TRUE]

CompileResults ==
    /\ pc = "done"
    /\ data_input' = drop(data_input, dropped_columns)
    /\ \E payoffs \in {apparent_columns @@ payoff_columns} :
          data_output' =
              z_scores(payoffs) @@ payoffs @@ extra_columns
                  @@ drop(data_input, dropped_columns)
    /\ pc' = "compiled"
    /\ UNCHANGED <<A, B, data_input_at_call, iterat_cap, extra_vars,
                   tie_order, bias, A_char_number,
                   B_char_number, q, iterat, q_reset_count, all_matched,
                   breakups_count, rejections_count, pass_matched_count, log, pos>>

Next ==
    \/ WhileStart
    \/ ProposeFree
    \/ ProposeBreakup
    \/ ProposeRejected
    \/ ProposeTie
    \/ PassMatched
    \/ EndIteration
    \/ LoopExit
    \/ CompileResults

Spec == Init /\ [][Next]_vars

\* the runs with the smaller iteration cap
CapSpec == CapInit /\ [][Next]_vars

\* the runs of every configuration
ConfigSpec == ConfigInit /\ [][Next]_vars

\* the runs with every order of the rows of equal utility
TieSpec == TieInit /\ [][Next]_vars

\* the runs that are compared with four_features and two_features
EquivSpec == EquivInit /\ [][Next]_vars

\* the program runs on: a step that is enabled is eventually taken
FairSpec == Spec /\ WF_vars(Next)

-----------------------------------------------------------------------------
(* four_features: the loop for four characteristics and no bias, as a        *)
(* function of its state S (the tables A and B and the loop variables)       *)

four_features_A(t) ==
    [k \in Rows(t) |->
        [id            |-> k,
         char_1        |-> t.A_char_1[k],
         char_2        |-> t.A_char_2[k],
         char_3        |-> t.A_char_3[k],
         char_4        |-> t.A_char_4[k],
         mrs12         |-> t.A_mrs12[k],
         mrs13         |-> t.A_mrs13[k],
         mrs14         |-> t.A_mrs14[k],
         match         |-> None,
         match_utility |-> 0]]

four_features_B(t) ==
    [k \in Rows(t) |->
        [id            |-> k,
         char_1        |-> t.B_char_1[k],
         char_2        |-> t.B_char_2[k],
         char_3        |-> t.B_char_3[k],
         char_4        |-> t.B_char_4[k],
         mrs12         |-> t.B_mrs12[k],
         mrs13         |-> t.B_mrs13[k],
         mrs14         |-> t.B_mrs14[k],
         match         |-> None,
         match_utility |-> 0]]

\* the state when the loop of four_features is reached on the table t
four_features_start(t) ==
    [A                  |-> four_features_A(t),
     B                  |-> four_features_B(t),
     q                  |-> 1,
     iterat             |-> 0,
     q_reset_count      |-> 0,
     all_matched        |-> FALSE,
     breakups_count     |-> 0,
     rejections_count   |-> 0,
     pass_matched_count |-> 0,
     log                |-> <<>>]

\* the 'utility' column of the network, row by row
four_features_network_utility(S, j) ==
      S.B[j].char_1
    + S.B[j].char_2 * S.A[j].mrs12
    + S.B[j].char_3 * S.A[j].mrs13
    + S.B[j].char_4 * S.A[j].mrs14

\* network.iloc[q-1]['id'] of the network sorted by descending utility
four_features_qth_best_id(S) ==
    CHOOSE j \in DOMAIN S.B :
        Cardinality({k \in DOMAIN S.B :
            \/ four_features_network_utility(S, k)
                  > four_features_network_utility(S, j)
            \/ /\ four_features_network_utility(S, k)
                    = four_features_network_utility(S, j)
               /\ tie_order[k] < tie_order[j]}) = S.q - 1

four_features_A_match_utility(S, i, b) ==
      S.B[b].char_1
    + S.B[b].char_2 * S.A[i].mrs12
    + S.B[b].char_3 * S.A[i].mrs13
    + S.B[b].char_4 * S.A[i].mrs14

four_features_B_match_utility(S, b, i) ==
      S.A[i].char_1
    + S.A[i].char_2 * S.B[b].mrs12
    + S.A[i].char_3 * S.B[b].mrs13
    + S.A[i].char_4 * S.B[b].mrs14

\* while all_matched == False: iterat += 1 and the counters are reset
four_features_while(S) ==
    [S EXCEPT !.iterat = @ + 1,
              !.breakups_count = 0,
              !.rejections_count = 0,
              !.pass_matched_count = 0]

\* the body of `for i in A['id']` for applicant i
four_features_visit(S, i) ==
    IF S.A[i].match = None
    THEN LET b  == four_features_qth_best_id(S)
             \* if the reviewer is available: match occurs
             S1 == IF S.B[b].match = None
                   THEN [S EXCEPT
                          !.A[i].match = b,
                          !.A[i].match_utility =
                              four_features_A_match_utility(S, i, b),
                          !.B[b].match = i,
                          !.B[b].match_utility =
                              four_features_B_match_utility(S, b, i)]
                   ELSE S
         IN  \* a second `if`, which also sees the match just made
             IF S1.B[b].match # None
             THEN LET current_applicant == S1.B[b].match
                      current_applicant_utility ==
                          four_features_B_match_utility(S1, b, current_applicant)
                      i_utility == four_features_B_match_utility(S1, b, i)
                  IN  IF i_utility > current_applicant_utility
                      THEN [S1 EXCEPT
                             !.breakups_count = @ + 1,
                             !.A = [@ EXCEPT
                                     ![current_applicant].match = None,
                                     ![current_applicant].match_utility = 0,
                                     ![i].match = b,
                                     ![i].match_utility =
                                         four_features_A_match_utility(S1, i, b)],
                             !.B[b].match = i,
                             !.B[b].match_utility = i_utility]
                      ELSE IF i_utility < current_applicant_utility
                      THEN [S1 EXCEPT !.rejections_count = @ + 1]
                      ELSE S1
             ELSE S1
    ELSE [S EXCEPT !.pass_matched_count = @ + 1]

\* after the pass: rank update, log row, termination checks
four_features_end(S) ==
    LET m  == Cardinality(DOMAIN S.B)
        q1 == IF S.q < m THEN S.q + 1 ELSE IF S.q = m THEN 1 ELSE S.q
        r1 == IF S.q < m THEN S.q_reset_count
              ELSE IF S.q = m THEN S.q_reset_count + 1 ELSE S.q_reset_count
        log_entry1 ==
            [iterat              |-> S.iterat,
             A_match_count       |-> match_count(S.A),
             A_unmatch_count     |-> unmatch_count(S.A),
             B_match_count       |-> match_count(S.B),
             B_unmatch_count     |-> unmatch_count(S.B),
             A_match_utlity_mean |-> match_utility_mean(S.A),
             B_match_utlity_mean |-> match_utility_mean(S.B),
             breakups_count      |-> S.breakups_count,
             q_reset_count       |-> r1,
             rejections_count    |-> S.rejections_count,
             pass_matched_count  |-> S.pass_matched_count]
    IN  [S EXCEPT
          !.q = q1,
          !.q_reset_count = r1,
          !.log = Append(@, log_entry1),
          !.all_matched =
              IF S.iterat > IterCap THEN TRUE
              ELSE ~ (\E b \in DOMAIN S.B : S.B[b].match = None)]

-----
(* two_features: the loop for two characteristics and one rate, as a         *)
(* function of its state S; it is called with A_mrs_name = 'A_mrs12' and     *)
(* B_mrs_name = 'B_mrs12'                                                    *)

two_features_A(t) ==
    [k \in Rows(t) |->
        [id            |-> k,
         char_1        |-> t.A_char_1[k],
         char_2        |-> t.A_char_2[k],
         mrs           |-> t.A_mrs12[k],
         match         |-> None,
         match_utility |-> 0]]

two_features_B(t) ==
    [k \in Rows(t) |->
        [id            |-> k,
         char_1        |-> t.B_char_1[k],
         char_2        |-> t.B_char_2[k],
         mrs           |-> t.B_mrs12[k],
         match         |-> None,
         match_utility |-> 0]]

\* the state when the loop of two_features is reached on the table t
two_features_start(t) ==
    [A                  |-> two_features_A(t),
     B                  |-> two_features_B(t),
     q                  |-> 1,
     iterat             |-> 0,
     q_reset_count      |-> 0,
     all_matched        |-> FALSE,
     breakups_count     |-> 0,
     rejections_count   |-> 0,
     pass_matched_count |-> 0,
     log                |-> <<>>]

\* the 'utility' column of the network, row by row
two_features_network_utility(S, j) ==
      S.B[j].char_1
    + S.B[j].char_2 * S.A[j].mrs

\* network.iloc[q-1]['id'] of the network sorted by descending utility
two_features_qth_best_id(S) ==
    CHOOSE j \in DOMAIN S.B :
        Cardinality({k \in DOMAIN S.B :
            \/ two_features_network_utility(S, k)
                  > two_features_network_utility(S, j)
            \/ /\ two_features_network_utility(S, k)
                    = two_features_network_utility(S, j)
               /\ tie_order[k] < tie_order[j]}) = S.q - 1

two_features_A_match_utility(S, i, b) ==
      S.B[b].char_1
    + S.B[b].char_2 * S.A[i].mrs

two_features_B_match_utility(S, b, i) ==
      S.A[i].char_1
    + S.A[i].char_2 * S.B[b].mrs

\* while all_matched == False: iterat += 1 and the counters are reset
two_features_while(S) ==
    [S EXCEPT !.iterat = @ + 1,
              !.breakups_count = 0,
              !.rejections_count = 0,
              !.pass_matched_count = 0]

\* the body of `for i in A['id']` for applicant i
two_features_visit(S, i) ==
    IF S.A[i].match = None
    THEN LET b  == two_features_qth_best_id(S)
             \* if the reviewer is available: match occurs
             S1 == IF S.B[b].match = None
                   THEN [S EXCEPT
                          !.A[i].match = b,
                          !.A[i].match_utility =
                              two_features_A_match_utility(S, i, b),
                          !.B[b].match = i,
                          !.B[b].match_utility =
                              two_features_B_match_utility(S, b, i)]
                   ELSE S
         IN  \* a second `if`, which also sees the match just made
             IF S1.B[b].match # None
             THEN LET current_applicant == S1.B[b].match
                      current_applicant_utility ==
                          two_features_B_match_utility(S1, b, current_applicant)
                      i_utility == two_features_B_match_utility(S1, b, i)
                  IN  IF i_utility > current_applicant_utility
                      THEN [S1 EXCEPT
                             !.breakups_count = @ + 1,
                             !.A = [@ EXCEPT
                                     ![current_applicant].match = None,
                                     ![current_applicant].match_utility = 0,
                                     ![i].match = b,
                                     ![i].match_utility =
                                         two_features_A_match_utility(S1, i, b)],
                             !.B[b].match = i,
                             !.B[b].match_utility = i_utility]
                      ELSE IF i_utility < current_applicant_utility
                      THEN [S1 EXCEPT !.rejections_count = @ + 1]
                      ELSE S1
             ELSE S1
    ELSE [S EXCEPT !.pass_matched_count = @ + 1]

\* after the pass: rank update, log row, termination checks
two_features_end(S) ==
    LET m  == Cardinality(DOMAIN S.B)
        q1 == IF S.q < m THEN S.q + 1 ELSE IF S.q = m THEN 1 ELSE S.q
        r1 == IF S.q < m THEN S.q_reset_count
              ELSE IF S.q = m THEN S.q_reset_count + 1 ELSE S.q_reset_count
        log_entry1 ==
            [iterat              |-> S.iterat,
             A_match_count       |-> match_count(S.A),
             A_unmatch_count     |-> unmatch_count(S.A),
             B_match_count       |-> match_count(S.B),
             B_unmatch_count     |-> unmatch_count(S.B),
             A_match_utlity_mean |-> match_utility_mean(S.A),
             B_match_utlity_mean |-> match_utility_mean(S.B),
             breakups_count      |-> S.breakups_count,
             q_reset_count       |-> r1,
             rejections_count    |-> S.rejections_count,
             pass_matched_count  |-> S.pass_matched_count]
    IN  [S EXCEPT
          !.q = q1,
          !.q_reset_count = r1,
          !.log = Append(@, log_entry1),
          !.all_matched =
              IF S.iterat > IterCap THEN TRUE
              ELSE ~ (\E b \in DOMAIN S.B : S.B[b].match = None)]

-----------------------------------------------------------------------------
(* graphs.py: the columns each plotting function reads from the table it is  *)
(* given, for the units and the name of the bias characteristic it is called *)
(* with                                                                      *)

\* the default of the parameter units
units_default == "Z-Score"

available_payoffs(units) ==
    IF units = "Z-Score"
    THEN {spec_name \o "_A_obs_u_z", spec_name \o "_B_obs_u_z"}
    ELSE {spec_name \o "_A_obs_u", spec_name \o "_B_obs_u"}

observed_vs_dap(units) ==
    IF units = "Z-Score"
    THEN {spec_name \o "_diff_A_z", spec_name \o "_diff_B_z"}
    ELSE {spec_name \o "_diff_A", spec_name \o "_diff_B"}

apparent_values(bias_char_name, units) ==
    (IF units = "Z-Score"
     THEN {spec_name \o "_bidap_A_apparent_v_z",
           spec_name \o "_bidap_A_apparent_corrected_v_z"}
     ELSE {spec_name \o "_bidap_A_apparent_v",
           spec_name \o "_bidap_A_apparent_corrected_v"})
    \cup {bias_char_name}

bias_effect(bias_char_name, units) ==
    (IF units = "Z-Score"
     THEN {spec_name \o "_A_obs_u_z", spec_name \o "_A_dap_u_z",
           spec_name \o "_diff_A_z"}
     ELSE {spec_name \o "_A_obs_u", spec_name \o "_A_dap_u"})
    \cup {bias_char_name}

-----------------------------------------------------------------------------
(* Properties *)

\* the utility of reviewer b to applicant a: b's characteristics weighted
\* by a's own rates (1, mrs12, mrs13, mrs14)
OwnUtility(a, b) ==
    B[b].char_1 + B[b].char_2 * A[a].mrs12 + B[b].char_3 * A[a].mrs13
                + B[b].char_4 * A[a].mrs14

\* the utility of applicant a to reviewer b: a's characteristics weighted by
\* b's own rates, plus the bias term
ReviewerUtility(b, a) ==
    A[a].char_1 + A[a].char_2 * B[b].mrs12 + A[a].char_3 * B[b].mrs13
                + A[a].char_4 * B[b].mrs14 + A[a].bias_char * B[b].bias_mrs

AllReviewersMatched == \A b \in Ids : B[b].match # None
AllApplicantsMatched == \A a \in Ids : A[a].match # None

\* the pass over the applicants is complete (before or after the rank update)
EndOfIteration ==
    \/ pc = "for" /\ pos = n
    \/ pc \in {"while", "done"} /\ iterat >= 1

\* the reviewer that is r-th (1-indexed) in applicant a's own preference
\* order: descending OwnUtility, equal utilities in the order of the ids
OwnRanked(a, r) ==
    CHOOSE b \in Ids :
        Cardinality({k \in Ids :
            \/ OwnUtility(a, k) > OwnUtility(a, b)
            \/ OwnUtility(a, k) = OwnUtility(a, b) /\ k < b}) = r - 1

\* no applicant and no reviewer values two counterparts equally
NoTies ==
    /\ \A a \in Ids : \A b1, b2 \in Ids :
            b1 # b2 => OwnUtility(a, b1) # OwnUtility(a, b2)
    /\ \A b \in Ids : \A a1, a2 \in Ids :
            a1 # a2 => ReviewerUtility(b, a1) # ReviewerUtility(b, a2)

\* textbook applicant-proposing deferred acceptance: hold[b] is the applicant
\* reviewer b holds, made[a] the number of proposals applicant a has made;
\* a free applicant proposes to the next reviewer of its own list
RECURSIVE GaleShapley(_, _)
GaleShapley(hold, made) ==
    LET free == {a \in Ids : made[a] < n /\ \A b \in Ids : hold[b] # a} IN
    IF free = {} THEN hold
    ELSE LET a == CHOOSE x \in free : \A y \in free : x <= y
             b == OwnRanked(a, made[a] + 1)
             more == [made EXCEPT ![a] = @ + 1]
         IN  IF \/ hold[b] = None
                \/ ReviewerUtility(b, a) > ReviewerUtility(b, hold[b])
             THEN GaleShapley([hold EXCEPT ![b] = a], more)
             ELSE GaleShapley(hold, more)

ApplicantOptimal ==
    GaleShapley([b \in Ids |-> None], [a \in Ids |-> 0])

\* (a, b) blocks the assignment: both strictly prefer each other to what
\* they hold
Blocks(a, b) ==
    /\ A[a].match # b
    /\ OwnUtility(a, b) > A[a].match_utility
    /\ ReviewerUtility(b, a) > B[b].match_utility

\* C1: when the loop has ended with every reviewer matched, no applicant and
\* reviewer that are not matched to each other both strictly prefer each
\* other to their matches.
C1_Stable ==
    (pc = "done" /\ AllReviewersMatched)
        => \A a \in Ids : \A b \in Ids : ~ Blocks(a, b)

\* C2: at the end of every iteration no reviewer is the match of two
\* applicants and no applicant is the match of two reviewers.
C2_OneToOne ==
    EndOfIteration =>
        /\ \A a1, a2 \in Ids :
              (a1 # a2 /\ A[a1].match # None) => A[a1].match # A[a2].match
        /\ \A b1, b2 \in Ids :
              (b1 # b2 /\ B[b1].match # None) => B[b1].match # B[b2].match

\* an iteration has ended in which an applicant was displaced, with at least
\* two pairs matched
C2_Witness ==
    /\ pc = "for" /\ pos = n
    /\ breakups_count > 0
    /\ Cardinality({a \in Ids : A[a].match # None}) >= 2

\* C3: after every proposal step the match relation is symmetric: applicant a
\* has match b exactly when reviewer b has match a.
C3_Symmetric ==
    \A a \in Ids : \A b \in Ids : (A[a].match = b) <=> (B[b].match = a)

\* a pass in which a free acceptance, a displacement and a rejection happened
C3_Witness ==
    /\ pc = "for"
    /\ breakups_count > 0
    /\ rejections_count > 0
    /\ \E a \in Ids : a < pos /\ A[a].match = None

\* C4: the loop ends with every reviewer and every applicant matched, and
\* the iteration counter has not passed the cap.
C4_Terminates ==
    <>(/\ pc = "done"
       /\ AllReviewersMatched
       /\ AllApplicantsMatched
       /\ iterat <= IterCap)

\* the loop has ended for a population of the largest size, after an
\* applicant was displaced and matched again
C4_Witness ==
    /\ pc = "done"
    /\ n = MaxN
    /\ AllReviewersMatched
    /\ \E k \in 1 .. Len(log) : log[k].breakups_count > 0

\* C5: for every matched pair (a, b), a's match_utility is b's
\* characteristics weighted by a's own rates and b's match_utility is a's
\* characteristics weighted by b's own rates plus a.bias_char * b.bias_mrs.
C5_MatchUtility ==
    \A a \in Ids : \A b \in Ids :
        A[a].match = b =>
            /\ A[a].match_utility =
                  B[b].char_1 + B[b].char_2 * A[a].mrs12
                + B[b].char_3 * A[a].mrs13 + B[b].char_4 * A[a].mrs14
            /\ B[b].match_utility =
                  A[a].char_1 + A[a].char_2 * B[b].mrs12
                + A[a].char_3 * B[b].mrs13 + A[a].char_4 * B[b].mrs14
                + A[a].bias_char * B[b].bias_mrs

\* a pair formed by a displacement, with applicants of different rates and a
\* bias term that is not 0, next to a pair formed by a free acceptance
C5_Witness ==
    /\ breakups_count > 0
    /\ \E a \in Ids : \E b \in Ids :
          /\ A[a].match = b
          /\ B[b].match_utility # 0
          /\ A[a].match_utility # 0
    /\ \E a1, a2 \in Ids :
          /\ A[a1].match # None /\ A[a2].match # None /\ a1 # a2

\* C6: an unmatched applicant that is accepted in an iteration with rank q
\* is matched to the q-th reviewer of its own preference order (reviewers'
\* characteristics weighted by the applicant's own rates).
C6_OwnQthBest ==
    [][(/\ pc = "for" /\ pos < n
        /\ A[pos].match = None
        /\ A'[pos].match # None) => A'[pos].match = OwnRanked(pos, q)]_vars

\* C7: a matched reviewer's match_utility never decreases, and a change of
\* its applicant raises it strictly.
C7_ReviewerMonotone ==
    [][\A b \in Ids :
          B[b].match # None =>
              /\ B'[b].match # None
              /\ B'[b].match_utility >= B[b].match_utility
              /\ B'[b].match # B[b].match =>
                    B'[b].match_utility > B[b].match_utility]_vars

\* a reviewer has replaced its applicant in the current pass
C7_Witness ==
    /\ pc = "for"
    /\ breakups_count > 0
    /\ \E b \in Ids : B[b].match # None /\ B[b].match = pos - 1

\* C8: for inputs without utility ties the final assignment is the one of
\* textbook applicant-proposing deferred acceptance.
C8_ApplicantOptimal ==
    (pc = "done" /\ NoTies) =>
        \A b \in Ids : B[b].match = ApplicantOptimal[b]

\* C9: for every applicant and reviewer, match_utility is 0 exactly when
\* match is unset.
C9_ZeroIffUnset ==
    /\ \A a \in Ids : (A[a].match_utility = 0) <=> (A[a].match = None)
    /\ \A b \in Ids : (B[b].match_utility = 0) <=> (B[b].match = None)

\* C9 as amended: an agent whose match is unset has match_utility 0 (a
\* matched agent holds the utility of its match, which can be 0 as well).
C9_UnsetImpliesZero ==
    /\ \A a \in Ids : A[a].match = None => A[a].match_utility = 0
    /\ \A b \in Ids : B[b].match = None => B[b].match_utility = 0

\* an applicant that held a match with a utility other than 0 has been
\* displaced
C9_Witness ==
    /\ pc = "for"
    /\ breakups_count > 0
    /\ \E a \in Ids : \E b \in Ids :
          /\ a < pos
          /\ A[a].match = None
          /\ B[b].match = pos - 1
          /\ OwnUtility(a, b) # 0

MatchedReviewers == Cardinality({b \in Ids : B[b].match # None})
UnmatchedReviewers == Cardinality({b \in Ids : B[b].match = None})
MatchedApplicants == Cardinality({a \in Ids : A[a].match # None})
UnmatchedApplicants == Cardinality({a \in Ids : A[a].match = None})

LoopLeft == pc \in {"done", "compiled"}

C12_Rank ==
    /\ [](/\ q \in 1 .. n
          /\ pc = "for" => q = ((iterat - 1) % n) + 1
          /\ pc # "for" => q = (iterat % n) + 1)
    /\ [][(pc = "for" /\ pc' = "for") => q' = q]_vars

\* the rank is back at 1 after the pass at q = n, and an applicant displaced
\* in iteration 1 has proposed again at a later rank
C12_Witness ==
    /\ pc = "done"
    /\ n = MaxN
    /\ iterat = n
    /\ q = 1
    /\ q_reset_count = 1
    /\ log[1].breakups_count > 0

\* the reviewer that is proposed to at rank 1
FirstTarget == CHOOSE j \in Ids : network_position(j) = 0

C14_MatchedSkipped ==
    [][(pc = "for" /\ pos < n) =>
          /\ \A a \in Ids : a > pos => A'[a] = A[a]
          /\ A[pos].match # None =>
                /\ A' = A /\ B' = B
                /\ pass_matched_count' = pass_matched_count + 1
                /\ breakups_count' = breakups_count
                /\ rejections_count' = rejections_count]_vars

\* a pass in which matched applicants were passed over, after an earlier
\* pass with a displacement
C14_Witness ==
    /\ pc = "for"
    /\ iterat >= 2
    /\ pass_matched_count > 0
    /\ pos = n
    /\ log[1].breakups_count > 0

\* C15: when the reviewer values the proposer and its current applicant
\* equally, no match and no match_utility changes: the incumbent keeps the
\* reviewer and the proposer stays unmatched.
C15_TieKeepsIncumbent ==
    [][(/\ pc = "for" /\ pos < n
        /\ A[pos].match = None
        /\ B[qth_best_id].match # None
        /\ ReviewerUtility(qth_best_id, pos)
              = ReviewerUtility(qth_best_id, B[qth_best_id].match))
          => (A' = A /\ B' = B
              /\ breakups_count' = breakups_count)]_vars

\* an applicant has proposed to a reviewer that values it and its current
\* applicant equally, and is unmatched
C15_Witness ==
    /\ pc = "for"
    /\ \E a \in Ids :
          /\ a < pos
          /\ A[a].match = None
          /\ B[qth_best_id].match \in 0 .. a - 1
          /\ ReviewerUtility(qth_best_id, a) = B[qth_best_id].match_utility

\* C16: the log has one row per executed iteration, numbered 1, 2, ... in
\* order; the counts of a row are the numbers of matched and unmatched
\* applicants and reviewers at the end of its iteration; a row never changes.
C16_Log ==
    /\ [](/\ Len(log) = (IF pc = "for" THEN iterat - 1 ELSE iterat)
          /\ \A k \in 1 .. Len(log) :
                /\ log[k].iterat = k
                /\ log[k].A_match_count + log[k].A_unmatch_count = n
                /\ log[k].B_match_count + log[k].B_unmatch_count = n
                /\ log[k].A_match_count = log[k].B_match_count
          /\ (pc # "for" /\ iterat >= 1) =>
                /\ log[Len(log)].A_match_count = MatchedApplicants
                /\ log[Len(log)].A_unmatch_count = UnmatchedApplicants
                /\ log[Len(log)].B_match_count = MatchedReviewers
                /\ log[Len(log)].B_unmatch_count = UnmatchedReviewers)
    /\ [][\A k \in 1 .. Len(log) : log'[k] = log[k]]_vars

\* the loop has ended after as many iterations as there are rows, the first
\* of which left applicants unmatched
C16_Witness ==
    /\ pc = "done"
    /\ Len(log) = MaxN
    /\ log[1].A_unmatch_count = MaxN - 1
    /\ log[Len(log)].A_unmatch_count = 0

-----------------------------------------------------------------------------
(* The compiled output *)

\* the utility of applicant a to reviewer b without the bias term
UnbiasedReviewerUtility(b, a) ==
    A[a].char_1 + A[a].char_2 * B[b].mrs12 + A[a].char_3 * B[b].mrs13
                + A[a].char_4 * B[b].mrs14

Max(S) == CHOOSE x \in S : \A y \in S : y <= x

BestForApplicant(k) == Max({OwnUtility(k, b) : b \in Ids})
BestForReviewer(k) == Max({UnbiasedReviewerUtility(k, a) : a \in Ids})

\* C17 as stated: in the compiled output A_obs_u of applicant k is the
\* largest utility k derives from any reviewer, and B_obs_u of reviewer k is
\* the largest unbiased utility k derives from any applicant.
C17_ObsIsMax ==
    pc = "compiled" =>
        \A k \in Ids :
            /\ data_output.default_A_obs_u[k] = BestForApplicant(k)
            /\ data_output.default_B_obs_u[k] = BestForReviewer(k)

\* C17 as the code has it: in the compiled output A_obs_u of applicant k is
\* the utility k derives from the reviewer of the same row k of the input
\* table, and B_obs_u of reviewer k is the unbiased utility k derives from
\* the applicant of the same row; neither exceeds the largest one.
C17_ObsIsOwnRow ==
    pc = "compiled" =>
        \A k \in Ids :
            /\ data_output.default_A_obs_u[k] = OwnUtility(k, k)
            /\ data_output.default_B_obs_u[k] = UnbiasedReviewerUtility(k, k)
            /\ data_output.default_A_obs_u[k] <= BestForApplicant(k)
            /\ data_output.default_B_obs_u[k] <= BestForReviewer(k)

\* the output is compiled with bias, and an applicant and a reviewer each
\* have a counterpart better than the one of their own row
C17_Witness ==
    /\ pc = "compiled"
    /\ bias
    /\ \E k \in Ids : data_output.default_A_obs_u[k] < BestForApplicant(k)
    /\ \E k \in Ids : /\ data_output.default_B_obs_u[k] < BestForReviewer(k)
                      /\ A[k].bias_char * B[k].bias_mrs # 0

\* C18: with bias and every agent matched, in the compiled output, for each
\* applicant k matched with reviewer m: A_apparent_u is the match utility of
\* m, bias term included; A_apparent_corrected_u is that value minus k's
\* bias characteristic times m's bias rate, which is the utility of k to m
\* without the bias term; A_dap_u is the utility of m to k, with no bias term.
C18_Apparent ==
    (pc = "compiled" /\ bias /\ AllApplicantsMatched /\ AllReviewersMatched) =>
        \A k \in Ids :
            LET m == A[k].match IN
            /\ data_output.default_A_apparent_u[k] = B[m].match_utility
            /\ data_output.default_A_apparent_u[k] = ReviewerUtility(m, k)
            /\ data_output.default_A_apparent_corrected_u[k] =
                  B[m].match_utility - A[k].bias_char * B[m].bias_mrs
            /\ data_output.default_A_apparent_corrected_u[k] =
                  UnbiasedReviewerUtility(m, k)
            /\ data_output.default_A_dap_u[k] = OwnUtility(k, m)

\* the output is compiled with bias and everyone matched; an applicant with
\* the bias characteristic is matched with the reviewer of another row, and
\* the bias term changes its apparent value
C18_Witness ==
    /\ pc = "compiled"
    /\ bias
    /\ AllApplicantsMatched
    /\ AllReviewersMatched
    /\ \E k \in Ids :
          /\ A[k].match # k
          /\ A[k].bias_char * B[A[k].match].bias_mrs # 0
          /\ data_output.default_A_apparent_u[k] # data_output.default_A_apparent_corrected_u[k]

\* C19: with bias, no payoff column of the compiled output contains the bias
\* term: A_dap_u and B_dap_u are the utilities of the matched pair without
\* it, A_obs_u and B_obs_u the utilities of the pair of the row without it.
C19_NoBiasInPayoffs ==
    (pc = "compiled" /\ bias) =>
        \A k \in Ids :
            /\ A[k].match # None =>
                  data_output.default_A_dap_u[k] = OwnUtility(k, A[k].match)
            /\ B[k].match # None =>
                  data_output.default_B_dap_u[k] = UnbiasedReviewerUtility(k, B[k].match)
            /\ data_output.default_A_obs_u[k] = OwnUtility(k, k)
            /\ data_output.default_B_obs_u[k] = UnbiasedReviewerUtility(k, k)

-----------------------------------------------------------------------------
(* Two characteristics and four characteristics with zeros *)

Zeros(col) == [k \in DOMAIN col |-> 0]

\* the caller's table with the third and fourth characteristics and their
\* rates of both sides replaced by zeros
ZeroedUnused(t) ==
    [t EXCEPT !.A_char_3 = Zeros(@), !.A_char_4 = Zeros(@),
              !.B_char_3 = Zeros(@), !.B_char_4 = Zeros(@),
              !.A_mrs13  = Zeros(@), !.A_mrs14  = Zeros(@),
              !.B_mrs13  = Zeros(@), !.B_mrs14  = Zeros(@)]

\* the tables a run with four characteristics builds from the zeroed table
A_four == A_table(Prepared(ZeroedUnused(data_input_at_call), 4, 4, bias))
B_four == B_table(Prepared(ZeroedUnused(data_input_at_call), 4, 4, bias))

\* the columns of a row that the loop never assigns
Static(r) == [c \in DOMAIN r \ {"match", "match_utility"} |-> r[c]]

\* C20: a run with two characteristics on each side works on the tables that
\* a run with four characteristics builds from the caller's table with the
\* third and fourth characteristics and their rates set to zero: before the
\* loop starts the tables A and B of the two runs are equal, the columns the
\* loop reads stay equal to them, and every utility the loop computes is the
\* two-characteristic value of the caller's columns, whatever the caller's
\* table holds in the unused columns.  The loop reads nothing but A and B,
\* so the match states, the utilities and the log of the two runs coincide.
C20_SameTables ==
    (A_char_number = 2 /\ B_char_number = 2) =>
        LET t == data_input_at_call IN
        /\ (pc = "while" /\ iterat = 0) => (A = A_four /\ B = B_four)
        /\ \A k \in Ids : /\ Static(A[k]) = Static(A_four[k])
                          /\ Static(B[k]) = Static(B_four[k])
        /\ \A a \in Ids, b \in Ids :
              /\ A_match_utility(a, b) =
                    t.B_char_1[b] + t.B_char_2[b] * t.A_mrs12[a]
              /\ B_match_utility(b, a) =
                      t.A_char_1[a] + t.A_char_2[a] * t.B_mrs12[b]
                    + (IF bias THEN t[A_bias_char_name][a] * t[B_bias_mrs_name][b] ELSE 0)
        /\ \A j \in Ids :
              network_utility(j) = t.B_char_1[j] + t.B_char_2[j] * t.A_mrs12[j]

\* a run with two characteristics has ended on a caller's table of MaxN rows
\* whose unused columns hold values other than zero, after a breakup
C20_Witness ==
    /\ pc = "done"
    /\ A_char_number = 2
    /\ B_char_number = 2
    /\ n = MaxN
    /\ \E r \in 1 .. Len(log) : log[r].breakups_count > 0
    /\ \A k \in Ids : /\ data_input_at_call.A_char_3[k] # 0
                      /\ data_input_at_call.B_char_4[k] # 0
                      /\ data_input_at_call.A_mrs13[k] # 0
                      /\ data_input_at_call.B_mrs14[k] # 0

-----------------------------------------------------------------------------
(* The configuration and the input table *)

\* the columns the configuration sets to 0 before the tables are built
ZeroFilled ==
    (IF A_char_number \in {2, 3} THEN {"A_char_4", "B_mrs14"} ELSE {})
    \cup (IF A_char_number = 2 THEN {"A_char_3", "B_mrs13"} ELSE {})
    \cup (IF B_char_number \in {2, 3} THEN {"B_char_4", "A_mrs14"} ELSE {})
    \cup (IF B_char_number = 2 THEN {"B_char_3", "A_mrs13"} ELSE {})
    \cup (IF bias = FALSE THEN {A_bias_char_name, B_bias_mrs_name} ELSE {})

\* a column the configuration needs is absent from the caller's table
RequiredColumnAbsent ==
    \E c \in (A_columns \cup B_columns) \ ZeroFilled :
        c \notin DOMAIN data_input_at_call

NothingRun == pc = "error" /\ iterat = 0 /\ log = <<>> /\ data_output = NoTable

ValidCounts == A_char_number \in {2, 3, 4} /\ B_char_number \in {2, 3, 4}

\* C21: a call with a characteristic count other than 2, 3 and 4 is rejected
\* before the first iteration: no iteration runs and no result is made.
C21_Rejected ==
    (A_char_number \notin {2, 3, 4} \/ B_char_number \notin {2, 3, 4}) =>
        NothingRun

\* C22: when a column the configuration needs is absent from the caller's
\* table (the characteristic counts being 2, 3 or 4), the call fails before
\* the loop: no iteration runs, the log has no row, and the caller's table is
\* as it was before the call.
C22_MissingColumn ==
    (ValidCounts /\ RequiredColumnAbsent) =>
        (NothingRun /\ data_input = data_input_at_call)

\* C23: with bias and four characteristics on each side (the defaults), a
\* table that has its bias columns under the names the caller passes (the
\* defaults A_bias_char and B_bias_mrs, as the example dataset) and every
\* other column is read without failure, and the bias columns of A and B are
\* those columns.
C23_GivenNamesFound ==
    LET t == data_input_at_call IN
    (/\ bias
     /\ A_char_number = 4
     /\ B_char_number = 4
     /\ {A_bias_char_name_given, B_bias_mrs_name_given} \subseteq DOMAIN t
     /\ \A c \in (A_columns \cup B_columns)
                    \ {A_bias_char_name, B_bias_mrs_name} : c \in DOMAIN t)
    => /\ pc # "error"
       /\ \A k \in Ids : /\ A[k].bias_char = t[A_bias_char_name_given][k]
                         /\ B[k].bias_mrs = t[B_bias_mrs_name_given][k]

\* C24: for every configuration with characteristic counts 2, 3 or 4 the
\* caller's table is the same after the results are compiled as it was at
\* the call, and the output has every column of the caller's table with its
\* values.
C24_InputUnchanged ==
    (ValidCounts /\ pc = "compiled") =>
        /\ data_input = data_input_at_call
        /\ \A c \in DOMAIN data_input_at_call :
              /\ c \in DOMAIN data_output
              /\ data_output[c] = data_input_at_call[c]

\* the columns of the output that the caller's table does not have
DerivedColumns == DOMAIN data_output \ DOMAIN data_input_at_call

AllocationColumns ==
    {"default_initial_index", "default_A_dap_match", "default_B_dap_match"}

PayoffColumns ==
    {"default_A_obs_u", "default_B_obs_u", "default_A_dap_u",
     "default_B_dap_u", "default_diff_A", "default_diff_B"}
    \cup (IF bias THEN {"default_A_apparent_u", "default_A_apparent_corrected_u"}
          ELSE {})

\* the columns of the z-scores of the payoff columns
ZScoreColumns == {c \o "_z" : c \in PayoffColumns}

AllocationCorrect ==
    \A k \in Ids :
        /\ data_output.default_initial_index[k] = k
        /\ data_output.default_A_dap_match[k] = A[k].match
        /\ data_output.default_B_dap_match[k] = B[k].match

\* C26 as stated: with the allocation columns wanted, the compiled output
\* has for every row the original index, the id assigned to the applicant
\* and to the reviewer of the row, and columns with the characteristics of
\* the assigned counterpart (for one, a column with char_1 of the reviewer
\* assigned to the applicant of the row; a z-score is not a characteristic).
C26_ExtraVars ==
    (pc = "compiled" /\ extra_vars) =>
        /\ AllocationColumns \subseteq DOMAIN data_output
        /\ AllocationCorrect
        /\ \E c \in DerivedColumns \ (AllocationColumns \cup ZScoreColumns) :
              \A k \in Ids :
                  A[k].match # None =>
                      data_output[c][k] = B[A[k].match].char_1

\* C26 as the code has it: with the allocation columns wanted, the compiled
\* output has for every row the original index and the id assigned to the
\* applicant and to the reviewer of the row, and beside these only the payoff
\* columns and their z-scores are added; without, the three columns are not
\* in the output.
C26_ExtraVarsIds ==
    pc = "compiled" =>
        IF extra_vars
        THEN /\ AllocationColumns \subseteq DOMAIN data_output
             /\ AllocationCorrect
             /\ DerivedColumns
                   = AllocationColumns \cup PayoffColumns \cup ZScoreColumns
        ELSE DerivedColumns = PayoffColumns \cup ZScoreColumns

\* the output is compiled with the allocation columns, and the assignment
\* of the applicants is not the assignment of the reviewers
C26_Witness ==
    /\ pc = "compiled"
    /\ extra_vars
    /\ \E k \in Ids : A[k].match # k /\ A[k].match # B[k].match

-----------------------------------------------------------------------------
(* The order of the proposals *)

\* the reviewer at rank r (1-indexed) when the rows of the network are in
\* descending utility and rows of equal utility in ascending id
RankedById(r) ==
    CHOOSE j \in Ids :
        Cardinality({k \in Ids :
            \/ network_utility(k) > network_utility(j)
            \/ network_utility(k) = network_utility(j) /\ k < j}) = r - 1

\* C27: of two reviewers of equal utility in the network the one with the
\* lower id is ranked first, so that an applicant that proposes at rank q
\* proposes to the q-th reviewer by descending utility and ascending id.
C27_LowerIdFirst ==
    /\ [](\A j1, j2 \in Ids :
            (network_utility(j1) = network_utility(j2) /\ j1 < j2) =>
                network_position(j1) < network_position(j2))
    /\ [][(/\ pc = "for" /\ pos < n
           /\ A[pos].match = None
           /\ A'[pos].match # None) => A'[pos].match = RankedById(q)]_vars

\* the applicants visited so far in the pass that were unmatched at their
\* visit: they are unmatched now or hold the reviewer the pass proposes to
Proposers ==
    {a \in Ids : a < pos /\ (A[a].match = None \/ A[a].match = qth_best_id)}

\* C28: within a pass the applicants are visited one by one in ascending id,
\* and each proposal meets the matches and breakups of the earlier ones: at
\* any point of a pass the reviewer proposed to holds, of the applicants that
\* have proposed so far, the one it values most, and of several it values
\* equally the one with the lowest id (the first accepted keeps the reviewer
\* on an exact tie).
C28_PassOrder ==
    /\ [][(pc = "for" /\ pc' = "for") => pos' = pos + 1]_vars
    /\ [][(pc = "while" /\ pc' = "for") => pos' = 0]_vars
    /\ [](pc = "for" =>
            LET r == qth_best_id
                h == B[r].match IN
            /\ Proposers = {} => h = None
            /\ Proposers # {} =>
                  /\ h \in Proposers
                  /\ A[h].match = r
                  /\ \A a \in Proposers :
                        /\ ReviewerUtility(r, a) <= ReviewerUtility(r, h)
                        /\ a < h => ReviewerUtility(r, a) < ReviewerUtility(r, h))

\* a pass is over in which two applicants that the reviewer values equally
\* and above the others both proposed; the one with the lower id holds it
C28_Witness ==
    /\ pc = "for"
    /\ pos = n
    /\ \E a1, a2 \in Proposers :
          /\ a1 < a2
          /\ B[qth_best_id].match = a1
          /\ ReviewerUtility(qth_best_id, a1) = ReviewerUtility(qth_best_id, a2)
          /\ \E a3 \in Proposers :
                ReviewerUtility(qth_best_id, a3) < ReviewerUtility(qth_best_id, a1)

\* C29: the visit of an applicant changes no row but those of the applicant,
\* of the reviewer proposed to and of the applicant that reviewer held; when
\* the reviewer values the proposer strictly less than the applicant it
\* holds, no row changes; the loop never changes an id, a characteristic, a
\* rate or a bias field, nor the set of rows.
C29_Frame ==
    /\ [][(pc = "for" /\ pos < n) =>
            LET i == pos
                r == qth_best_id
                c == B[r].match IN
            /\ \A a \in Ids \ {i, c} : A'[a] = A[a]
            /\ \A b \in Ids \ {r} : B'[b] = B[b]
            /\ (/\ A[i].match = None
                /\ c # None
                /\ ReviewerUtility(r, i) < ReviewerUtility(r, c))
               => (A' = A /\ B' = B)]_vars
    /\ [][/\ DOMAIN A' = DOMAIN A
          /\ DOMAIN B' = DOMAIN B
          /\ \A k \in Ids : /\ Static(A'[k]) = Static(A[k])
                            /\ Static(B'[k]) = Static(B[k])]_vars

\* in one pass a reviewer has left an applicant for a better one and has
\* turned another one down
C29_Witness ==
    /\ pc = "for"
    /\ n >= 3
    /\ breakups_count > 0
    /\ rejections_count > 0

\* C30: a reviewer that holds a match holds one after every step; the number
\* of matched reviewers never decreases and always equals the number of
\* matched applicants.
C30_ReviewersStayMatched ==
    /\ [][\A b \in Ids : B[b].match # None => B'[b].match # None]_vars
    /\ [][MatchedReviewers' >= MatchedReviewers]_vars
    /\ [](MatchedReviewers = MatchedApplicants)

\* a reviewer has left an applicant for another one and holds a match, and
\* an applicant is unmatched
C30_Witness ==
    /\ pc = "for"
    /\ breakups_count > 0
    /\ MatchedReviewers > 0
    /\ MatchedReviewers < n

\* the outcomes that log row k counts: the applicants passed as matched, the
\* breakups, the rejections and the reviewers matched for the first time
\* (a matched reviewer stays matched, so these are the increase of
\* B_match_count over the row before)
RowOutcomes(k) ==
      log[k].pass_matched_count
    + log[k].breakups_count
    + log[k].rejections_count
    + (log[k].B_match_count - (IF k = 1 THEN 0 ELSE log[k-1].B_match_count))

\* the same sum for the visits made so far in the running pass
PassOutcomes ==
      pass_matched_count
    + breakups_count
    + rejections_count
    + (MatchedReviewers
          - (IF Len(log) = 0 THEN 0 ELSE log[Len(log)].B_match_count))

\* the visit of applicant pos is a proposal to a matched reviewer that values
\* the proposer and the applicant it holds equally
TiedProposal ==
    /\ A[pos].match = None
    /\ B[qth_best_id].match # None
    /\ ReviewerUtility(qth_best_id, pos)
          = ReviewerUtility(qth_best_id, B[qth_best_id].match)

\* C31 as claimed: in every log row the passed, the breakups, the rejections
\* and the reviewers matched for the first time add up to the number of
\* applicants.
C31_FourOutcomes ==
    \A k \in 1 .. Len(log) : RowOutcomes(k) = n

\* C31: every visit of a pass adds one to exactly one of the four outcomes,
\* except a proposal that ties with the reviewer's current applicant, which
\* is counted nowhere; so the four outcomes of a log row add up to at most
\* the number of applicants, and the row holds the sums of its pass.
C31_OutcomesButTies ==
    /\ [][(pc = "for" /\ pos < n) =>
            PassOutcomes' = PassOutcomes + (IF TiedProposal THEN 0 ELSE 1)]_vars
    /\ [][(pc = "while" /\ pc' = "for") => PassOutcomes' = 0]_vars
    /\ [][(pc = "for" /\ pos = n) =>
            /\ Len(log') = Len(log) + 1
            /\ RowOutcomes(Len(log))' = PassOutcomes]_vars
    /\ [](pc = "for" => PassOutcomes <= pos)
    /\ [](\A k \in 1 .. Len(log) : RowOutcomes(k) <= n)

\* a log row whose four outcomes add up to fewer than the applicants: in its
\* pass one proposal was rejected and another one tied
C31_Witness ==
    \E k \in 1 .. Len(log) :
        /\ RowOutcomes(k) < n
        /\ log[k].rejections_count > 0

\* the reviewer that stands at position p (from 1) of the sorted network
RankedReviewer(p) == CHOOSE j \in Ids : network_position(j) = p - 1

\* the reviewers that stand before position p of the sorted network
RankedBefore(p) == {j \in Ids : network_position(j) < p - 1}

\* C32: in iteration k every proposal goes to the reviewer at position k of
\* the one sorted network, which no earlier iteration has matched; the pass
\* matches it and changes the row of no other reviewer, so after k passes the
\* matched reviewers are the first k of the network, the k-th log row counts
\* k of them, and with at most as many applicants as the iteration cap the
\* loop is left after exactly n iterations and n log rows with every reviewer
\* matched.
C32_OnePerIteration ==
    /\ [](pc = "for" =>
            /\ q = iterat
            /\ iterat <= n
            /\ RankedBefore(iterat) \subseteq {b \in Ids : B[b].match # None}
            /\ {b \in Ids : B[b].match # None}
                  \subseteq RankedBefore(iterat) \cup {RankedReviewer(iterat)}
            /\ pos = n => B[RankedReviewer(iterat)].match # None)
    /\ [][(pc = "for" /\ pos < n) =>
            /\ \A b \in Ids \ {RankedReviewer(iterat)} : B'[b] = B[b]
            /\ \A a \in Ids :
                  (A'[a].match # A[a].match /\ A'[a].match # None)
                      => A'[a].match = RankedReviewer(iterat)]_vars
    /\ [][pc # "for" => B' = B]_vars
    /\ [](\A k \in 1 .. Len(log) :
            /\ log[k].iterat = k
            /\ log[k].B_match_count = k)
    /\ []((LoopLeft /\ n <= iterat_cap) =>
            /\ iterat = n
            /\ Len(log) = n
            /\ AllReviewersMatched)

\* the loop is left with as many applicants as the iteration cap allows
\* iterations, after a pass in which a reviewer was proposed to by several
\* applicants
C32_Witness ==
    /\ LoopLeft
    /\ n = iterat_cap
    /\ n >= 2
    /\ \E k \in 1 .. Len(log) :
          log[k].breakups_count + log[k].rejections_count > 0

\* the loop variables of rematcher
LoopVariables(A1, B1) ==
    [A                  |-> A1,
     B                  |-> B1,
     q                  |-> q,
     iterat             |-> iterat,
     q_reset_count      |-> q_reset_count,
     all_matched        |-> all_matched,
     breakups_count     |-> breakups_count,
     rejections_count   |-> rejections_count,
     pass_matched_count |-> pass_matched_count,
     log                |-> log]

\* the state of rematcher as a state of four_features: the tables without
\* their bias fields
AsFourFeatures ==
    LET Row(r) == [f \in DOMAIN r \ {"bias_char", "bias_mrs"} |-> r[f]]
    IN  LoopVariables([k \in Ids |-> Row(A[k])], [k \in Ids |-> Row(B[k])])

\* the state of rematcher as a state of two_features: the tables with
\* char_1, char_2 and the rate mrs12 as mrs
AsTwoFeatures ==
    LET Row(r) == [id            |-> r.id,
                   char_1        |-> r.char_1,
                   char_2        |-> r.char_2,
                   mrs           |-> r.mrs12,
                   match         |-> r.match,
                   match_utility |-> r.match_utility]
    IN  LoopVariables([k \in Ids |-> Row(A[k])], [k \in Ids |-> Row(B[k])])

CountsAre(c) == A_char_number = c /\ B_char_number = c /\ ~ bias

\* C33: called without bias and with both counts 4, rematcher starts its loop
\* in the state in which four_features starts it on the same table, and
\* every step of its loop is the step four_features takes from the same
\* state (tables, rank, counters, flag and log); the same holds for
\* two_features and the call with both counts 2.  The two runs therefore go
\* through the same states and leave the loop with the same tables and log.
C33_SameLoops ==
    /\ []((CountsAre(4) /\ pc = "while" /\ iterat = 0) =>
            AsFourFeatures = four_features_start(data_input_at_call))
    /\ [][(CountsAre(4) /\ pc = "while" /\ pc' = "for") =>
            AsFourFeatures' = four_features_while(AsFourFeatures)]_vars
    /\ [][(CountsAre(4) /\ pc = "for" /\ pos < n) =>
            AsFourFeatures' = four_features_visit(AsFourFeatures, pos)]_vars
    /\ [][(CountsAre(4) /\ pc = "for" /\ pos = n) =>
            AsFourFeatures' = four_features_end(AsFourFeatures)]_vars
    /\ [][(CountsAre(4) /\ pc = "while" /\ pc' = "done") =>
            AsFourFeatures' = AsFourFeatures]_vars
    /\ []((CountsAre(2) /\ pc = "while" /\ iterat = 0) =>
            AsTwoFeatures = two_features_start(data_input_at_call))
    /\ [][(CountsAre(2) /\ pc = "while" /\ pc' = "for") =>
            AsTwoFeatures' = two_features_while(AsTwoFeatures)]_vars
    /\ [][(CountsAre(2) /\ pc = "for" /\ pos < n) =>
            AsTwoFeatures' = two_features_visit(AsTwoFeatures, pos)]_vars
    /\ [][(CountsAre(2) /\ pc = "for" /\ pos = n) =>
            AsTwoFeatures' = two_features_end(AsTwoFeatures)]_vars
    /\ [][(CountsAre(2) /\ pc = "while" /\ pc' = "done") =>
            AsTwoFeatures' = AsTwoFeatures]_vars

\* the loop with four characteristics is left after a breakup, a rejection
\* and a tie, with reviewers that value the applicants by their char_3 and a
\* table whose bias columns are not 0
C33_Witness ==
    /\ pc = "done"
    /\ CountsAre(4)
    /\ \E k \in DOMAIN data_input_at_call[A_bias_char_name] :
          data_input_at_call[A_bias_char_name][k] # 0
    /\ \E a, b \in Ids : A[a].char_3 # A[b].char_3
    /\ \E k \in 1 .. Len(log) : log[k].breakups_count > 0
    /\ \E k \in 1 .. Len(log) : log[k].rejections_count > 0
    /\ \E k \in 1 .. Len(log) : RowOutcomes(k) < n

\* the output table of a call with bias has every column of the set
Written(columns) ==
    (pc = "compiled" /\ bias) => columns \subseteq DOMAIN data_output

\* C34: every column that available_payoffs, observed_vs_dap, apparent_values
\* and bias_effect read, with the default units and the name of the bias
\* column of the table, is a column of the output table of a call with bias.
C34_PlotColumnsWritten ==
    /\ Written(available_payoffs(units_default))
    /\ Written(observed_vs_dap(units_default))
    /\ Written(apparent_values(A_bias_char_name, units_default))
    /\ Written(bias_effect(A_bias_char_name, units_default))

====
